---- MODULE Spec2Model ----
(***************************************************************************)
(* Proof-of-existence pallet (pallets/poe/src/lib.rs).                     *)
(*                                                                         *)
(* The pallet keeps one storage map, Proofs, from a bounded byte vector    *)
(* (the claim) to a tuple (owner, block number, active flag), and exposes  *)
(* three dispatchables: create_claim, revoke_claim and transfer_claim.     *)
(* Each dispatchable is modelled as an operator from the storage and the   *)
(* call's arguments to the call's outcome, and as one action applying it.  *)
(***************************************************************************)
EXTENDS Integers, Sequences, FiniteSets, TLC

(* ------------------------------ bounds --------------------------------- *)

\* accounts are 1..NumAccounts
NumAccounts == 2
\* the block number runs from 1 to MaxBlock
MaxBlock == 3

(* --------------------------- configuration ----------------------------- *)

\* T::MaxClaimLength, the bound of BoundedVec<u8, T::MaxClaimLength>
MaxClaimLength == 1

\* the byte values claims are made of
ByteVals == {0}

AccountId == 1..NumAccounts

\* BoundedVec<u8, T::MaxClaimLength>: every byte sequence up to the bound
Claims == UNION {[1..n -> ByteVals] : n \in 0..MaxClaimLength}

(* ------------------------------ origins -------------------------------- *)

Signed(a) == [kind |-> "Signed", who |-> a]
RawOriginRoot == [kind |-> "Root", who |-> 0]

Origins == {Signed(a) : a \in AccountId} \cup {RawOriginRoot}

\* ensure_signed(origin): Ok(who) for a signed origin, Err(BadOrigin) otherwise
ensure_signed(origin) ==
    IF origin.kind = "Signed"
    THEN [ok |-> TRUE,  who |-> origin.who]
    ELSE [ok |-> FALSE, who |-> 0]

(* ------------------------------ storage -------------------------------- *)

\* Option<(AccountId, BlockNumber, bool)>: None is <<>>, Some(v) is <<v>>
None == <<>>
Some(v) == <<v>>

VARIABLES
    Proofs,        \* the storage map: claim -> Option<(owner, block, active)>
    block_number,  \* frame_system::Pallet::<T>::block_number()
    last,          \* the last dispatched call, its result, the events it
                   \* deposited and the order of its effects
    pre,           \* history: Proofs as the last dispatched call found it
    creates,       \* history: number of successful create_claim per claim
    lastCT,        \* history: block of the last successful create/transfer
    lastCR,        \* history: block of the last successful create/revoke
    grantee,       \* history: the requester of the successful create_claim
                   \* or the new owner of the last successful transfer_claim
    revokes,       \* history: successful revoke_claim per claim since its
                   \* last successful transfer_claim
    former,        \* history: the sender of the last successful
                   \* transfer_claim per claim (followed under SpecOwners)
    revoked        \* history: whether a revoke_claim of the claim has ever
                   \* succeeded (followed under Spec)

vars == <<Proofs, block_number, last, pre, creates, lastCT, lastCR, grantee,
          revokes, former, revoked>>

contains_key(map, claim) == map[claim] # None
get(map, claim) == map[claim]
insert(map, claim, value) == [map EXCEPT ![claim] = Some(value)]

\* the fields of a stored tuple (owner, block number, active)
Owner(rec) == rec[1]
RegisteredAt(rec) == rec[2]
Active(rec) == rec[3]

(* ------------------------------ events --------------------------------- *)

ClaimCreated(owner, claim) ==
    [name |-> "ClaimCreated", owner |-> owner, claim |-> claim]
ClaimRevoked(owner, claim) ==
    [name |-> "ClaimRevoked", owner |-> owner, claim |-> claim]
ClaimTransferred(old_owner, new_owner, claim) ==
    [name |-> "ClaimTransferred", old_owner |-> old_owner,
     new_owner |-> new_owner, claim |-> claim]

(* ------------------------------ errors --------------------------------- *)

\* the variants of the pallet's Error<T>
Error == {"NoneValue", "StorageOverflow", "ProofAlreadyExist", "ProofNotExist",
          "NotProofOwner", "ProofAlreadyRevoked", "CannotTransferToSelf"}

\* the error ensure_signed returns for an origin that is not signed
BadOrigin == "BadOrigin"

Ok == "Ok"

(* --------------------------- dispatchables ----------------------------- *)

\* the outcome of a call that returns an error: no write, no event
Err(e, map) ==
    [result |-> e, Proofs |-> map, deposited |-> <<>>, effects |-> <<>>]

\* the outcome of a call that inserts value under claim and then deposits ev
Done(map, claim, value, ev) ==
    [result |-> Ok, Proofs |-> insert(map, claim, value),
     deposited |-> <<ev>>, effects |-> <<"insert", "deposit_event">>]

\* create_claim refusing only a claim whose record is still active
create_claim_unless_revoked(map, now, origin, claim) ==
    LET s == ensure_signed(origin)
        who == s.who
    IN  IF ~s.ok THEN Err(BadOrigin, map)
        ELSE IF contains_key(map, claim) /\ get(map, claim)[1][3]
             THEN Err("ProofAlreadyExist", map)
        ELSE Done(map, claim, <<who, now, TRUE>>, ClaimCreated(who, claim))

\* create_claim inserting its record with the active flag off
create_claim_inactive(map, now, origin, claim) ==
    LET s == ensure_signed(origin)
        who == s.who
    IN  IF ~s.ok THEN Err(BadOrigin, map)
        ELSE IF contains_key(map, claim) THEN Err("ProofAlreadyExist", map)
        ELSE Done(map, claim, <<who, now, FALSE>>, ClaimCreated(who, claim))

\* create_claim refusing every claim once the map holds any entry
create_claim_single_entry(map, now, origin, claim) ==
    LET s == ensure_signed(origin)
        who == s.who
    IN  IF ~s.ok THEN Err(BadOrigin, map)
        ELSE IF \E c \in DOMAIN map : contains_key(map, c)
             THEN Err("ProofAlreadyExist", map)
        ELSE Done(map, claim, <<who, now, TRUE>>, ClaimCreated(who, claim))

create_claim(map, now, origin, claim) ==
    LET s == ensure_signed(origin)
        who == s.who
    IN  IF ~s.ok THEN Err(BadOrigin, map)
        ELSE IF contains_key(map, claim) THEN Err("ProofAlreadyExist", map)
        ELSE Done(map, claim, <<who, now, TRUE>>, ClaimCreated(who, claim))

\* revoke_claim writing the record before it checks the active flag
revoke_claim_write_first(map, now, origin, claim) ==
    LET s == ensure_signed(origin)
        who == s.who
    IN  IF ~s.ok THEN Err(BadOrigin, map)
        ELSE IF ~contains_key(map, claim) THEN Err("ProofNotExist", map)
        ELSE LET rec == get(map, claim)[1]
                 owner == rec[1]
                 is_active == rec[3]
             IN  IF who # owner THEN Err("NotProofOwner", map)
                 ELSE IF ~is_active
                      THEN Err("ProofAlreadyRevoked",
                               insert(map, claim, <<who, now, FALSE>>))
                 ELSE Done(map, claim, <<who, now, FALSE>>,
                           ClaimRevoked(who, claim))

\* revoke_claim without the check of the active flag
revoke_claim_no_active_check(map, now, origin, claim) ==
    LET s == ensure_signed(origin)
        who == s.who
    IN  IF ~s.ok THEN Err(BadOrigin, map)
        ELSE IF ~contains_key(map, claim) THEN Err("ProofNotExist", map)
        ELSE LET rec == get(map, claim)[1]
                 owner == rec[1]
             IN  IF who # owner THEN Err("NotProofOwner", map)
                 ELSE Done(map, claim, <<who, now, FALSE>>,
                           ClaimRevoked(who, claim))

\* revoke_claim removing the entry instead of rewriting it as inactive
revoke_claim_remove(map, now, origin, claim) ==
    LET s == ensure_signed(origin)
        who == s.who
    IN  IF ~s.ok THEN Err(BadOrigin, map)
        ELSE IF ~contains_key(map, claim) THEN Err("ProofNotExist", map)
        ELSE LET rec == get(map, claim)[1]
                 owner == rec[1]
                 is_active == rec[3]
             IN  IF who # owner THEN Err("NotProofOwner", map)
                 ELSE IF ~is_active THEN Err("ProofAlreadyRevoked", map)
                 ELSE [result |-> Ok, Proofs |-> [map EXCEPT ![claim] = None],
                       deposited |-> <<ClaimRevoked(who, claim)>>,
                       effects |-> <<"remove", "deposit_event">>]

\* revoke_claim checking the active flag before the owner
revoke_claim_active_first(map, now, origin, claim) ==
    LET s == ensure_signed(origin)
        who == s.who
    IN  IF ~s.ok THEN Err(BadOrigin, map)
        ELSE IF ~contains_key(map, claim) THEN Err("ProofNotExist", map)
        ELSE LET rec == get(map, claim)[1]
                 owner == rec[1]
                 is_active == rec[3]
             IN  IF ~is_active THEN Err("ProofAlreadyRevoked", map)
                 ELSE IF who # owner THEN Err("NotProofOwner", map)
                 ELSE Done(map, claim, <<who, now, FALSE>>,
                           ClaimRevoked(who, claim))

\* revoke_claim keeping the block number of the record it rewrites
revoke_claim_keep_block(map, now, origin, claim) ==
    LET s == ensure_signed(origin)
        who == s.who
    IN  IF ~s.ok THEN Err(BadOrigin, map)
        ELSE IF ~contains_key(map, claim) THEN Err("ProofNotExist", map)
        ELSE LET rec == get(map, claim)[1]
                 owner == rec[1]
                 is_active == rec[3]
             IN  IF who # owner THEN Err("NotProofOwner", map)
                 ELSE IF ~is_active THEN Err("ProofAlreadyRevoked", map)
                 ELSE Done(map, claim, <<who, rec[2], FALSE>>,
                           ClaimRevoked(who, claim))

\* revoke_claim without the check that the caller owns the claim
revoke_claim_by_anyone(map, now, origin, claim) ==
    LET s == ensure_signed(origin)
        who == s.who
    IN  IF ~s.ok THEN Err(BadOrigin, map)
        ELSE IF ~contains_key(map, claim) THEN Err("ProofNotExist", map)
        ELSE LET rec == get(map, claim)[1]
                 is_active == rec[3]
             IN  IF ~is_active THEN Err("ProofAlreadyRevoked", map)
                 ELSE Done(map, claim, <<who, now, FALSE>>,
                           ClaimRevoked(who, claim))

\* revoke_claim flipping the active flag instead of checking it
revoke_claim_toggle(map, now, origin, claim) ==
    LET s == ensure_signed(origin)
        who == s.who
    IN  IF ~s.ok THEN Err(BadOrigin, map)
        ELSE IF ~contains_key(map, claim) THEN Err("ProofNotExist", map)
        ELSE LET rec == get(map, claim)[1]
                 owner == rec[1]
                 is_active == rec[3]
             IN  IF who # owner THEN Err("NotProofOwner", map)
                 ELSE Done(map, claim, <<who, now, ~is_active>>,
                           ClaimRevoked(who, claim))

revoke_claim(map, now, origin, claim) ==
    LET s == ensure_signed(origin)
        who == s.who
    IN  IF ~s.ok THEN Err(BadOrigin, map)
        ELSE IF ~contains_key(map, claim) THEN Err("ProofNotExist", map)
        ELSE LET rec == get(map, claim)[1]
                 owner == rec[1]
                 is_active == rec[3]
             IN  IF who # owner THEN Err("NotProofOwner", map)
                 ELSE IF ~is_active THEN Err("ProofAlreadyRevoked", map)
                 ELSE Done(map, claim, <<who, now, FALSE>>,
                           ClaimRevoked(who, claim))

\* transfer_claim without the check that the sender owns the claim
transfer_claim_no_owner_check(map, now, origin, claim, new_owner) ==
    LET s == ensure_signed(origin)
        sender == s.who
    IN  IF ~s.ok THEN Err(BadOrigin, map)
        ELSE IF get(map, claim) = None THEN Err("ProofNotExist", map)
        ELSE LET rec == get(map, claim)[1]
                 current_owner == rec[1]
                 block_num == rec[2]
             IN  IF current_owner = new_owner
                 THEN Err("CannotTransferToSelf", map)
                 ELSE Done(map, claim, <<new_owner, block_num, TRUE>>,
                           ClaimTransferred(sender, new_owner, claim))

\* transfer_claim without the check that the new owner differs
transfer_claim_no_self_check(map, now, origin, claim, new_owner) ==
    LET s == ensure_signed(origin)
        sender == s.who
    IN  IF ~s.ok THEN Err(BadOrigin, map)
        ELSE IF get(map, claim) = None THEN Err("ProofNotExist", map)
        ELSE LET rec == get(map, claim)[1]
                 current_owner == rec[1]
                 block_num == rec[2]
             IN  IF current_owner # sender THEN Err("NotProofOwner", map)
                 ELSE Done(map, claim, <<new_owner, block_num, TRUE>>,
                           ClaimTransferred(sender, new_owner, claim))

\* transfer_claim stamping the record with the current block number
transfer_claim_stamp_now(map, now, origin, claim, new_owner) ==
    LET s == ensure_signed(origin)
        sender == s.who
    IN  IF ~s.ok THEN Err(BadOrigin, map)
        ELSE IF get(map, claim) = None THEN Err("ProofNotExist", map)
        ELSE LET rec == get(map, claim)[1]
                 current_owner == rec[1]
             IN  IF current_owner # sender THEN Err("NotProofOwner", map)
                 ELSE IF current_owner = new_owner
                      THEN Err("CannotTransferToSelf", map)
                 ELSE Done(map, claim, <<new_owner, now, TRUE>>,
                           ClaimTransferred(sender, new_owner, claim))

\* transfer_claim keeping the active flag of the record it rewrites
transfer_claim_keep_active(map, now, origin, claim, new_owner) ==
    LET s == ensure_signed(origin)
        sender == s.who
    IN  IF ~s.ok THEN Err(BadOrigin, map)
        ELSE IF get(map, claim) = None THEN Err("ProofNotExist", map)
        ELSE LET rec == get(map, claim)[1]
                 current_owner == rec[1]
                 block_num == rec[2]
             IN  IF current_owner # sender THEN Err("NotProofOwner", map)
                 ELSE IF current_owner = new_owner
                      THEN Err("CannotTransferToSelf", map)
                 ELSE Done(map, claim, <<new_owner, block_num, rec[3]>>,
                           ClaimTransferred(sender, new_owner, claim))

\* transfer_claim depositing its event with the two owners swapped
transfer_claim_swapped_event(map, now, origin, claim, new_owner) ==
    LET s == ensure_signed(origin)
        sender == s.who
    IN  IF ~s.ok THEN Err(BadOrigin, map)
        ELSE IF get(map, claim) = None THEN Err("ProofNotExist", map)
        ELSE LET rec == get(map, claim)[1]
                 current_owner == rec[1]
                 block_num == rec[2]
             IN  IF current_owner # sender THEN Err("NotProofOwner", map)
                 ELSE IF current_owner = new_owner
                      THEN Err("CannotTransferToSelf", map)
                 ELSE Done(map, claim, <<new_owner, block_num, TRUE>>,
                           ClaimTransferred(new_owner, sender, claim))

\* transfer_claim returning the template's NoneValue for a missing entry
transfer_claim_none_value(map, now, origin, claim, new_owner) ==
    LET s == ensure_signed(origin)
        sender == s.who
    IN  IF ~s.ok THEN Err(BadOrigin, map)
        ELSE IF get(map, claim) = None THEN Err("NoneValue", map)
        ELSE LET rec == get(map, claim)[1]
                 current_owner == rec[1]
                 block_num == rec[2]
             IN  IF current_owner # sender THEN Err("NotProofOwner", map)
                 ELSE IF current_owner = new_owner
                      THEN Err("CannotTransferToSelf", map)
                 ELSE Done(map, claim, <<new_owner, block_num, TRUE>>,
                           ClaimTransferred(sender, new_owner, claim))

\* transfer_claim checking the new owner before the sender
transfer_claim_self_check_first(map, now, origin, claim, new_owner) ==
    LET s == ensure_signed(origin)
        sender == s.who
    IN  IF ~s.ok THEN Err(BadOrigin, map)
        ELSE IF get(map, claim) = None THEN Err("ProofNotExist", map)
        ELSE LET rec == get(map, claim)[1]
                 current_owner == rec[1]
                 block_num == rec[2]
             IN  IF current_owner = new_owner
                 THEN Err("CannotTransferToSelf", map)
                 ELSE IF current_owner # sender THEN Err("NotProofOwner", map)
                 ELSE Done(map, claim, <<new_owner, block_num, TRUE>>,
                           ClaimTransferred(sender, new_owner, claim))

\* transfer_claim refusing a claim whose record is inactive
transfer_claim_requires_active(map, now, origin, claim, new_owner) ==
    LET s == ensure_signed(origin)
        sender == s.who
    IN  IF ~s.ok THEN Err(BadOrigin, map)
        ELSE IF get(map, claim) = None THEN Err("ProofNotExist", map)
        ELSE LET rec == get(map, claim)[1]
                 current_owner == rec[1]
                 block_num == rec[2]
             IN  IF current_owner # sender THEN Err("NotProofOwner", map)
                 ELSE IF current_owner = new_owner
                      THEN Err("CannotTransferToSelf", map)
                 ELSE IF ~rec[3] THEN Err("ProofAlreadyRevoked", map)
                 ELSE Done(map, claim, <<new_owner, block_num, TRUE>>,
                           ClaimTransferred(sender, new_owner, claim))

\* transfer_claim writing the current owner back instead of the new one
transfer_claim_keep_owner(map, now, origin, claim, new_owner) ==
    LET s == ensure_signed(origin)
        sender == s.who
    IN  IF ~s.ok THEN Err(BadOrigin, map)
        ELSE IF get(map, claim) = None THEN Err("ProofNotExist", map)
        ELSE LET rec == get(map, claim)[1]
                 current_owner == rec[1]
                 block_num == rec[2]
             IN  IF current_owner # sender THEN Err("NotProofOwner", map)
                 ELSE IF current_owner = new_owner
                      THEN Err("CannotTransferToSelf", map)
                 ELSE Done(map, claim, <<current_owner, block_num, TRUE>>,
                           ClaimTransferred(sender, new_owner, claim))

transfer_claim(map, now, origin, claim, new_owner) ==
    LET s == ensure_signed(origin)
        sender == s.who
    IN  IF ~s.ok THEN Err(BadOrigin, map)
        ELSE IF get(map, claim) = None THEN Err("ProofNotExist", map)
        ELSE LET rec == get(map, claim)[1]
                 current_owner == rec[1]
                 block_num == rec[2]
             IN  IF current_owner # sender THEN Err("NotProofOwner", map)
                 ELSE IF current_owner = new_owner
                      THEN Err("CannotTransferToSelf", map)
                 ELSE Done(map, claim, <<new_owner, block_num, TRUE>>,
                           ClaimTransferred(sender, new_owner, claim))

(* ------------------------------ actions -------------------------------- *)

NoCall ==
    [op |-> "none", origin |-> RawOriginRoot, claim |-> <<>>, new_owner |-> 0,
     result |-> Ok, deposited |-> <<>>, effects |-> <<>>]

Init ==
    /\ Proofs = [c \in Claims |-> None]
    /\ block_number = 1
    /\ last = NoCall
    /\ pre = [c \in Claims |-> None]
    /\ creates = [c \in Claims |-> 0]
    /\ lastCT = [c \in Claims |-> 0]
    /\ lastCR = [c \in Claims |-> 0]
    /\ grantee = [c \in Claims |-> 0]
    /\ revokes = [c \in Claims |-> 0]
    /\ former = [c \in Claims |-> 0]
    /\ revoked = [c \in Claims |-> FALSE]

\* what every dispatched call does with its outcome r
Dispatch(op, origin, claim, new_owner, r) ==
    /\ Proofs' = r.Proofs
    /\ last' = [op |-> op, origin |-> origin, claim |-> claim,
                new_owner |-> new_owner, result |-> r.result,
                deposited |-> r.deposited, effects |-> r.effects]
    /\ pre' = Proofs
    /\ creates' = IF op = "create" /\ r.result = Ok
                  THEN [creates EXCEPT ![claim] = IF @ < 2 THEN @ + 1 ELSE @]
                  ELSE creates
    /\ lastCR' = IF op \in {"create", "revoke"} /\ r.result = Ok
                 THEN [lastCR EXCEPT ![claim] = block_number] ELSE lastCR
    /\ grantee' = IF op \in {"create", "transfer"} /\ r.result = Ok
                  THEN [grantee EXCEPT ![claim] =
                          IF op = "create" THEN origin.who ELSE new_owner]
                  ELSE grantee
    /\ revokes' = IF op = "revoke" /\ r.result = Ok
                  THEN [revokes EXCEPT ![claim] = IF @ < 2 THEN @ + 1 ELSE @]
                  ELSE IF op = "transfer" /\ r.result = Ok
                  THEN [revokes EXCEPT ![claim] = 0]
                  ELSE revokes
    /\ UNCHANGED block_number

\* a dispatched call, with the history of the blocks of its writes
Apply(op, origin, claim, new_owner, r) ==
    /\ Dispatch(op, origin, claim, new_owner, r)
    /\ lastCT' = IF op \in {"create", "transfer"} /\ r.result = Ok
                 THEN [lastCT EXCEPT ![claim] = block_number] ELSE lastCT
    /\ revoked' = IF op = "revoke" /\ r.result = Ok
                  THEN [revoked EXCEPT ![claim] = TRUE] ELSE revoked
    /\ UNCHANGED former

\* a dispatched call, with the history of the owners it replaced
ApplyOwners(op, origin, claim, new_owner, r) ==
    /\ Dispatch(op, origin, claim, new_owner, r)
    /\ former' = IF op = "transfer" /\ r.result = Ok
                 THEN [former EXCEPT ![claim] = origin.who] ELSE former
    /\ UNCHANGED <<lastCT, revoked>>

Create ==
    \E origin \in Origins, claim \in Claims :
          Apply("create", origin, claim, 0,
                create_claim(Proofs, block_number, origin, claim))

Revoke ==
    \E origin \in Origins, claim \in Claims :
          Apply("revoke", origin, claim, 0,
                revoke_claim(Proofs, block_number, origin, claim))

Transfer ==
    \E origin \in Origins, claim \in Claims, new_owner \in AccountId :
          Apply("transfer", origin, claim, new_owner,
                transfer_claim(Proofs, block_number, origin, claim, new_owner))

\* the chain moves on to its next block
NextBlock ==
    /\ block_number < MaxBlock
    /\ block_number' = block_number + 1
    /\ UNCHANGED <<Proofs, last, pre, creates, lastCT, lastCR, grantee, revokes,
                 former, revoked>>

Next == Create \/ Revoke \/ Transfer \/ NextBlock

Spec == Init /\ [][Next]_vars

(* the same dispatchables, following the owners that transfers replaced *)

CreateOwners ==
    \E origin \in Origins, claim \in Claims :
          ApplyOwners("create", origin, claim, 0,
                      create_claim(Proofs, block_number, origin, claim))

RevokeOwners ==
    \E origin \in Origins, claim \in Claims :
          ApplyOwners("revoke", origin, claim, 0,
                      revoke_claim(Proofs, block_number, origin, claim))

TransferOwners ==
    \E origin \in Origins, claim \in Claims, new_owner \in AccountId :
          ApplyOwners("transfer", origin, claim, new_owner,
                      transfer_claim(Proofs, block_number, origin, claim,
                                     new_owner))

NextOwners == CreateOwners \/ RevokeOwners \/ TransferOwners \/ NextBlock

SpecOwners == Init /\ [][NextOwners]_vars

(* ------------------------- the last call's view ------------------------ *)

\* the last call was op, dispatched with a signed origin
Called(op) == last.op = op /\ last.origin.kind = "Signed"
\* the account that signed the last call
Requester == last.origin.who
\* the record the last call found (when it found one) and the one it left
PreRec == pre[last.claim][1]
PostRec == Proofs[last.claim][1]
Failed == last.op # "none" /\ last.result # Ok

(* --------------------------------- C1 ---------------------------------- *)

\* C1: for every claim at most one create_claim ever succeeds, and a
\* create_claim on a claim that already has an entry fails with
\* ProofAlreadyExist, whoever signs it and whether the entry is active or
\* revoked.
C1_Uniqueness ==
    /\ \A c \in Claims : creates[c] <= 1
    /\ (Called("create") /\ contains_key(pre, last.claim))
          => last.result = "ProofAlreadyExist"

\* a create_claim by another account on a revoked claim was refused
C1_Witness ==
    /\ Called("create")
    /\ contains_key(pre, last.claim)
    /\ ~Active(PreRec)
    /\ Owner(PreRec) # Requester
    /\ last.result = "ProofAlreadyExist"
    /\ creates[last.claim] = 1

(* --------------------------------- C2 ---------------------------------- *)

\* C2: a call that returns an error leaves the whole map as it found it:
\* every key, and the owner, block number and active flag of every record.
C2_NoOpOnFailure == Failed => Proofs = pre

\* a revoke_claim of an already revoked claim failed on a non-empty map
C2_Witness ==
    /\ Called("revoke")
    /\ last.result = "ProofAlreadyRevoked"
    /\ contains_key(Proofs, last.claim)

(* --------------------------------- C3 ---------------------------------- *)

\* C3: on an active record a revoke_claim or transfer_claim signed by anyone
\* but the stored owner fails with NotProofOwner and leaves the record as it
\* was; so such a call succeeds only if the requester is the stored owner.
C3_OwnershipExclusivity ==
    ((Called("revoke") \/ Called("transfer"))
        /\ contains_key(pre, last.claim) /\ Active(PreRec))
    => /\ Requester # Owner(PreRec)
            => (last.result = "NotProofOwner"
                /\ Proofs[last.claim] = pre[last.claim])
       /\ last.result = Ok => Requester = Owner(PreRec)

\* a transfer_claim of an active claim by a non-owner was refused
C3_Witness ==
    /\ Called("transfer")
    /\ contains_key(pre, last.claim)
    /\ Active(PreRec)
    /\ Requester # Owner(PreRec)
    /\ last.result = "NotProofOwner"
    /\ Owner(PostRec) = Owner(PreRec)

(* --------------------------------- C4 ---------------------------------- *)

\* C4 as stated: a revoke_claim of a claim whose record is inactive fails
\* with ProofAlreadyRevoked for every requester.
C4_AsStated ==
    (Called("revoke") /\ contains_key(pre, last.claim) /\ ~Active(PreRec))
    => last.result = "ProofAlreadyRevoked"

\* C4 amended: a revoke_claim of a claim whose record is inactive never
\* succeeds; it fails with ProofAlreadyRevoked when the requester is the
\* stored owner and with NotProofOwner when it is anyone else.
C4_RevokeOfRevoked ==
    (Called("revoke") /\ contains_key(pre, last.claim) /\ ~Active(PreRec))
    => last.result = IF Requester = Owner(PreRec)
                     THEN "ProofAlreadyRevoked" ELSE "NotProofOwner"

\* the owner tried to revoke its revoked claim again
C4_Witness ==
    /\ Called("revoke")
    /\ contains_key(pre, last.claim)
    /\ ~Active(PreRec)
    /\ Requester = Owner(PreRec)
    /\ last.result = "ProofAlreadyRevoked"

(* --------------------------------- C5 ---------------------------------- *)

\* C5 as stated: a transfer_claim whose new owner is the requester fails
\* with CannotTransferToSelf whatever the state of the claim.
C5_AsStated ==
    (Called("transfer") /\ last.new_owner = Requester)
    => last.result = "CannotTransferToSelf"

\* C5 amended: a transfer_claim whose new owner is the requester always
\* fails: with ProofNotExist when the claim has no entry, with NotProofOwner
\* when the requester is not the stored owner, and with CannotTransferToSelf
\* when the requester is the stored owner, active or revoked.
C5_SelfTransfer ==
    (Called("transfer") /\ last.new_owner = Requester)
    => last.result =
          IF ~contains_key(pre, last.claim) THEN "ProofNotExist"
          ELSE IF Requester # Owner(PreRec) THEN "NotProofOwner"
          ELSE "CannotTransferToSelf"

\* the owner of a revoked claim tried to transfer it to itself
C5_Witness ==
    /\ Called("transfer")
    /\ last.new_owner = Requester
    /\ contains_key(pre, last.claim)
    /\ ~Active(PreRec)
    /\ Requester = Owner(PreRec)
    /\ last.result = "CannotTransferToSelf"

(* --------------------------------- C6 ---------------------------------- *)

\* C6 as stated: the block number of every active record is the block of
\* the last successful create_claim or transfer_claim of its claim (and so
\* never the block of a revoke_claim).
C6_AsStated ==
    \A c \in Claims :
        (contains_key(Proofs, c) /\ Active(Proofs[c][1]))
        => RegisteredAt(Proofs[c][1]) = lastCT[c]

\* C6 amended: the block number of every active record is the block of the
\* last successful create_claim or revoke_claim of its claim; transfer_claim
\* keeps the stored block number, so a record that was created, revoked and
\* then transferred carries the block of the revoke.
C6_RegisteredAt ==
    \A c \in Claims :
        (contains_key(Proofs, c) /\ Active(Proofs[c][1]))
        => RegisteredAt(Proofs[c][1]) = lastCR[c]

\* a claim revoked in block 2 was transferred in block 3 and is active again
\* with the block number of its revoke
C6_Witness ==
    /\ Called("transfer")
    /\ last.result = Ok
    /\ contains_key(pre, last.claim)
    /\ ~Active(PreRec)
    /\ RegisteredAt(PreRec) = 2
    /\ block_number = 3
    /\ lastCT[last.claim] = 3
    /\ Active(PostRec)
    /\ RegisteredAt(PostRec) = 2

(* --------------------------------- C7 ---------------------------------- *)

St(map, c) ==
    IF map[c] = None THEN <<"Absent">>
    ELSE <<IF Active(map[c][1]) THEN "Active" ELSE "Revoked", Owner(map[c][1])>>

\* C8: whenever a call changes the state of a claim, the claim is the call's
\* claim, the call succeeded, and the change is one of
\*   Absent --create_claim--> Active(requester),
\*   Active(o) --revoke_claim by o--> Revoked(o),
\*   Active(o) or Revoked(o) --transfer_claim by o to X--> Active(X), X # o.
C8_StateMachine ==
    \A c \in Claims :
        St(pre, c) # St(Proofs, c)
        => /\ c = last.claim
           /\ last.result = Ok
           /\ \/ /\ Called("create")
                 /\ St(pre, c) = <<"Absent">>
                 /\ St(Proofs, c) = <<"Active", Requester>>
              \/ /\ Called("revoke")
                 /\ St(pre, c) = <<"Active", Requester>>
                 /\ St(Proofs, c) = <<"Revoked", Requester>>
              \/ /\ Called("transfer")
                 /\ St(pre, c) \in {<<"Active", Requester>>,
                                    <<"Revoked", Requester>>}
                 /\ St(Proofs, c) = <<"Active", last.new_owner>>
                 /\ last.new_owner # Requester

\* a transfer_claim took a claim from Revoked(o) to Active(X)
C8_Witness ==
    /\ Called("transfer")
    /\ St(pre, last.claim) = <<"Revoked", Requester>>
    /\ St(Proofs, last.claim) = <<"Active", last.new_owner>>
    /\ last.new_owner # Requester

(* --------------------------------- C9 ---------------------------------- *)

\* the event a successful call of the last call's kind has to deposit
ExpectedEvent ==
    CASE last.op = "create" -> ClaimCreated(Requester, last.claim)
      [] last.op = "revoke" -> ClaimRevoked(Requester, last.claim)
      [] last.op = "transfer" ->
            ClaimTransferred(Requester, last.new_owner, last.claim)

\* C9: a successful call deposits exactly one event, after its write to the
\* map, naming the call's claim and accounts; a failed call deposits none.
C9_Events ==
    /\ (last.op # "none" /\ last.result = Ok)
          => /\ last.deposited = <<ExpectedEvent>>
             /\ last.effects = <<"insert", "deposit_event">>
    /\ Failed => last.deposited = <<>>

\* a transfer_claim succeeded and deposited its ClaimTransferred event
C9_Witness ==
    /\ Called("transfer")
    /\ last.result = Ok
    /\ Len(last.deposited) = 1
    /\ last.deposited[1].name = "ClaimTransferred"
    /\ last.deposited[1].old_owner = Owner(PreRec)
    /\ last.deposited[1].new_owner = Owner(PostRec)

(* --------------------------------- C10 --------------------------------- *)

\* C10: every signed call returns Ok or one error of its dispatchable's own
\* set: create_claim only ProofAlreadyExist; revoke_claim only ProofNotExist,
\* NotProofOwner or ProofAlreadyRevoked; transfer_claim only ProofNotExist,
\* NotProofOwner or CannotTransferToSelf; no call returns NoneValue or
\* StorageOverflow.
C10_ErrorTaxonomy ==
    /\ Called("create") => last.result \in {Ok, "ProofAlreadyExist"}
    /\ Called("revoke") =>
          last.result \in {Ok, "ProofNotExist", "NotProofOwner",
                           "ProofAlreadyRevoked"}
    /\ Called("transfer") =>
          last.result \in {Ok, "ProofNotExist", "NotProofOwner",
                           "CannotTransferToSelf"}
    /\ last.result \notin {"NoneValue", "StorageOverflow"}
    /\ last.result \in {Ok, BadOrigin} \cup Error

\* a transfer_claim of a claim without an entry returned ProofNotExist
C10_Witness ==
    /\ Called("transfer")
    /\ ~contains_key(pre, last.claim)
    /\ last.result = "ProofNotExist"

(* --------------------------------- C11 --------------------------------- *)

\* C11: revoke_claim checks existence, then ownership, then the active flag,
\* and the first check that fails decides the error: ProofNotExist on a claim
\* without an entry for every requester, NotProofOwner for a requester who is
\* not the stored owner whether the record is active or revoked, and
\* ProofAlreadyRevoked only for the owner of an inactive record.
C11_RevokeOrder ==
    Called("revoke")
    => /\ ~contains_key(pre, last.claim) => last.result = "ProofNotExist"
       /\ (contains_key(pre, last.claim) /\ Requester # Owner(PreRec))
             => last.result = "NotProofOwner"
       /\ last.result = "ProofAlreadyRevoked"
             => (contains_key(pre, last.claim)
                 /\ Requester = Owner(PreRec) /\ ~Active(PreRec))
       /\ (contains_key(pre, last.claim) /\ Requester = Owner(PreRec))
             => last.result = IF Active(PreRec) THEN Ok
                              ELSE "ProofAlreadyRevoked"

\* a revoke_claim of a revoked claim by a non-owner returned NotProofOwner
C11_Witness ==
    /\ Called("revoke")
    /\ contains_key(pre, last.claim)
    /\ ~Active(PreRec)
    /\ Requester # Owner(PreRec)
    /\ last.result = "NotProofOwner"

(* --------------------------------- C12 --------------------------------- *)

\* the result of a transfer in the order the specification gives: existence,
\* requester == owner, requester # new owner
SpecTransferResult ==
    IF ~contains_key(pre, last.claim) THEN "ProofNotExist"
    ELSE IF Requester # Owner(PreRec) THEN "NotProofOwner"
    ELSE IF Requester = last.new_owner THEN "CannotTransferToSelf"
    ELSE Ok

\* C12: transfer_claim checks existence, then requester == owner, then the
\* new owner: ProofNotExist on a claim without an entry even for a transfer
\* to oneself, NotProofOwner for a non-owner even when the new owner is the
\* requester or the stored owner; the code's third check (stored owner #
\* new owner) decides every call as the check requester # new owner would.
C12_TransferOrder == Called("transfer") => last.result = SpecTransferResult

\* a non-owner asked to transfer a claim to its stored owner
C12_Witness ==
    /\ Called("transfer")
    /\ contains_key(pre, last.claim)
    /\ Requester # Owner(PreRec)
    /\ last.new_owner = Owner(PreRec)
    /\ last.result = "NotProofOwner"

(* --------------------------------- C13 --------------------------------- *)

\* C13: a successful transfer_claim rewrites the record with the new owner,
\* the block number it had and the active flag on; the owner's transfer of a
\* revoked record to another account succeeds and makes it active again.
C13_TransferEffect ==
    Called("transfer")
    => /\ last.result = Ok
            => Proofs[last.claim]
                 = Some(<<last.new_owner, RegisteredAt(PreRec), TRUE>>)
       /\ (contains_key(pre, last.claim) /\ ~Active(PreRec)
           /\ Requester = Owner(PreRec) /\ last.new_owner # Requester)
            => last.result = Ok

\* a record revoked in an earlier block was transferred and is active again
C13_Witness ==
    /\ Called("transfer")
    /\ last.result = Ok
    /\ ~Active(PreRec)
    /\ Active(PostRec)
    /\ Owner(PostRec) = last.new_owner
    /\ RegisteredAt(PostRec) = RegisteredAt(PreRec)
    /\ RegisteredAt(PostRec) < lastCT[last.claim]

(* --------------------------------- C14 --------------------------------- *)

\* C14: a successful revoke_claim rewrites the record with the owner it had,
\* the block number of the block the call ran in and the active flag off.
C14_RevokeEffect ==
    (Called("revoke") /\ last.result = Ok)
    => Proofs[last.claim]
         = Some(<<Owner(PreRec), lastCR[last.claim], FALSE>>)

\* a revoke_claim replaced the block number of an earlier block by its own
C14_Witness ==
    /\ Called("revoke")
    /\ last.result = Ok
    /\ ~Active(PostRec)
    /\ Owner(PostRec) = Owner(PreRec)
    /\ RegisteredAt(PreRec) < RegisteredAt(PostRec)
    /\ RegisteredAt(PostRec) = lastCR[last.claim]

(* --------------------------------- C15 --------------------------------- *)

\* C15: a create_claim of a claim without an entry succeeds and inserts the
\* record (requester, block number of the call, active) under the claim.
C15_CreateEffect ==
    (Called("create") /\ ~contains_key(pre, last.claim))
    => /\ last.result = Ok
       /\ Proofs[last.claim] = Some(<<Requester, lastCT[last.claim], TRUE>>)

\* a create_claim in a block after the first inserted its record
C15_Witness ==
    /\ Called("create")
    /\ ~contains_key(pre, last.claim)
    /\ last.result = Ok
    /\ Proofs[last.claim] = Some(<<Requester, 2, TRUE>>)

(* --------------------------------- C16 --------------------------------- *)

\* C16 (under SpecOwners): once a transfer_claim of a claim from A to C has
\* succeeded, and until the next successful transfer_claim of that claim,
\* every revoke_claim or transfer_claim of it signed by A fails with
\* NotProofOwner and none signed by C does; the next successful transfer is
\* signed by the owner it finds.
C16_AuthorityMoves ==
    ((Called("revoke") \/ Called("transfer")) /\ former[last.claim] # 0)
    => IF last.op = "transfer" /\ last.result = Ok
       THEN Requester = Owner(PreRec)
       ELSE /\ former[last.claim] # grantee[last.claim]
            /\ Requester = former[last.claim]
                  => last.result = "NotProofOwner"
            /\ Requester = grantee[last.claim]
                  => last.result # "NotProofOwner"

\* the account that transferred a claim away asked to revoke it
C16_Witness ==
    /\ Called("revoke")
    /\ former[last.claim] = Requester
    /\ grantee[last.claim] # Requester
    /\ Owner(PostRec) = grantee[last.claim]
    /\ last.result = "NotProofOwner"

(* --------------------------------- C17 --------------------------------- *)

\* a map with no entry but the one of claim f
Alone(map, f) == [c \in Claims |-> IF c = f THEN map[c] ELSE None]

\* the last call dispatched again, in block now, on the map it found with
\* every other claim's entry taken away
Redo(now) ==
    CASE last.op = "create" ->
            create_claim(Alone(pre, last.claim), now, last.origin, last.claim)
      [] last.op = "revoke" ->
            revoke_claim(Alone(pre, last.claim), now, last.origin, last.claim)
      [] last.op = "transfer" ->
            transfer_claim(Alone(pre, last.claim), now, last.origin,
                           last.claim, last.new_owner)

\* C17: a call on a claim leaves the entry, or the absence, of every other
\* claim as it was, and its result, its event and the record it leaves are
\* those it gives on a map that holds no other claim.
C17_KeyIndependence ==
    last.op # "none"
    => /\ \A g \in Claims \ {last.claim} : Proofs[g] = pre[g]
       /\ \E now \in 1..MaxBlock :
             /\ Redo(now).result = last.result
             /\ Redo(now).deposited = last.deposited
             /\ Redo(now).Proofs[last.claim] = Proofs[last.claim]

\* a create_claim succeeded while another claim had an entry, which it kept
C17_Witness ==
    /\ Called("create")
    /\ last.result = Ok
    /\ \E g \in Claims \ {last.claim} :
          contains_key(pre, g) /\ Proofs[g] = pre[g]

(* --------------------------------- C19 --------------------------------- *)

\* C19: the owner of every record is the requester of the claim's successful
\* create_claim or the new owner of its last successful transfer_claim, and
\* the owner of a record changes only in a successful transfer_claim signed
\* by the owner it replaces.
C19_OwnerChanges ==
    /\ \A c \in Claims :
          contains_key(Proofs, c) => Owner(Proofs[c][1]) = grantee[c]
    /\ \A c \in Claims :
          (contains_key(pre, c) /\ contains_key(Proofs, c)
           /\ Owner(pre[c][1]) # Owner(Proofs[c][1]))
          => /\ c = last.claim
             /\ Called("transfer")
             /\ last.result = Ok
             /\ Requester = Owner(pre[c][1])
             /\ Owner(Proofs[c][1]) = last.new_owner

\* a transferred claim was revoked by its new owner, who still owns it
C19_Witness ==
    /\ Called("revoke")
    /\ last.result = Ok
    /\ RegisteredAt(PreRec) < lastCT[last.claim]
    /\ Owner(PostRec) = Owner(PreRec)
    /\ Owner(PostRec) = grantee[last.claim]

(* --------------------------------- C20 --------------------------------- *)

====
